---- MODULE Spec2Model ----
(***************************************************************************)
(* Model of generate_noise_texture.py: one call of                         *)
(* generate_simplex_noise_texture() as a step machine (seed, allocation,   *)
(* the sampling loop cell by cell, normalisation, quantisation, image      *)
(* construction, os.makedirs, img.save, print), and a second invocation    *)
(* with the same arguments on the file system the first call left.         *)
(*                                                                         *)
(* Numbers.  The noise library computes in float32 and NumPy in float64.   *)
(* The model keeps to the scales for which every float32 operation of the  *)
(* sampler but the final total / max is exact (|scale| <= 2), and rounds   *)
(* that quotient to float32 as the library does.  A coordinate i / scale   *)
(* is the integer numerator i (sign-adjusted) over the denominator         *)
(* D = |scale|; a raw noise value is the integer numerator of the float32  *)
(* result over Fl32Unit = 2^27; a normalised value is a record [num, den]  *)
(* and its float64 quotient is not rounded: on the values the sampler can  *)
(* return at these scales the truncated product with 255 is the same.      *)
(***************************************************************************)
EXTENDS Integers, Sequences, FiniteSets, TLC

\* ------------------------------------------------------------- bounds ----
\* Largest width and largest height tried (the default is 256).
MaxDim == 3
\* The random draw of an unset seed is taken from 0 .. MaxSeed-1
\* (np.random.randint(0, 100) draws from 0 .. 99).
MaxSeed == 2

\* ---------------------------------------------------- input universes ----
\* Number of directory components of the default output_path,
\* "public/assets/normal.png"; paths with 0 .. DefaultDepth are tried.
DefaultDepth == 2
\* The unset seed (Python None); given seeds are >= 0.
None == -1
Dims == {-1, 0} \cup (1 .. MaxDim)
\* Scales of magnitude 3 and more are left out: there the float32 rounding
\* inside the noise library decides the values.
Scales == {-2, 0, 1, 2}
OctaveChoices == {1, 2}
SeedArgs == {None, 0, 1}

\* ---------------------------------------------------------- arithmetic ---
Abs(n) == IF n < 0 THEN -n ELSE n

RECURSIVE Pow(_, _)
Pow(b, e) == IF e = 0 THEN 1 ELSE b * Pow(b, e - 1)

RECURSIVE GCD(_, _)
GCD(a, b) == IF b = 0 THEN a ELSE GCD(b, a % b)

\* float32 values are kept as integer numerators over Fl32Unit.
Fl32Unit == 8192 * 16384

\* The float32 nearest to p / q (ties to the even mantissa), q > 0, as a
\* numerator over Fl32Unit: the quotient a / b is scaled by 2^e into
\* [2^23, 2^24), rounded to an integer mantissa and scaled back.
\* Fl32Scale gives the scaled numerator a * 2^e and 2^(27 - e).
RECURSIVE Fl32Scale(_, _, _)
Fl32Scale(a, b, back) ==
  IF a >= b * (8192 * 1024) THEN [a |-> a, back |-> back]
  ELSE CASE back > 1 -> Fl32Scale(2 * a, b, back \div 2)

Fl32Quot(p, q) ==
  IF p = 0 THEN 0
  ELSE LET g  == GCD(Abs(p), q)
           b  == q \div g
           sc == Fl32Scale(Abs(p) \div g, b, Fl32Unit)
           m0 == sc.a \div b
           r  == sc.a % b
           m  == IF 2 * r > b \/ (2 * r = b /\ m0 % 2 = 1) THEN m0 + 1 ELSE m0
       IN  (IF p < 0 THEN -1 ELSE 1) * m * sc.back

\* floor(m * a / b) and the remainder, for 0 <= a <= b, bit by bit of m so
\* that no intermediate value exceeds 3 * b.
RECURSIVE MulDiv(_, _, _)
MulDiv(m, a, b) ==
  IF m = 0 THEN [q |-> 0, r |-> 0]
  ELSE LET h == MulDiv(m \div 2, a, b)
           t == 2 * h.r + (m % 2) * a
       IN  [q |-> 2 * h.q + (t \div b), r |-> t % b]

\* C fmodf on integers-over-a-common-denominator: the result has the sign
\* of the dividend (truncated division).
TruncMod(a, m) == IF a >= 0 THEN a % m ELSE -((-a) % m)

\* --------------------------------------------- noise library (pnoise2) ---
\* Permutation table of the noise library (Ken Perlin's reference table);
\* the library stores it twice in a row, so indices 0 .. 511 are readable.
PERM ==
  << 151,160,137,91,90,15,131,13,201,95,96,53,194,233,7,225,
     140,36,103,30,69,142,8,99,37,240,21,10,23,190,6,148,
     247,120,234,75,0,26,197,62,94,252,219,203,117,35,11,32,
     57,177,33,88,237,149,56,87,174,20,125,136,171,168,68,175,
     74,165,71,134,139,48,27,166,77,146,158,231,83,111,229,122,
     60,211,133,230,220,105,92,41,55,46,245,40,244,102,143,54,
     65,25,63,161,1,216,80,73,209,76,132,187,208,89,18,169,
     200,196,135,130,116,188,159,86,164,100,109,198,173,186,3,64,
     52,217,226,250,124,123,5,202,38,147,118,126,255,82,85,212,
     207,206,59,227,47,16,58,17,182,189,28,42,223,183,170,213,
     119,248,152,2,44,154,163,70,221,153,101,155,167,43,172,9,
     129,22,39,253,19,98,108,110,79,113,224,232,178,185,112,104,
     218,246,97,228,251,34,242,193,238,210,144,12,191,179,162,241,
     81,51,145,235,249,14,239,107,49,192,214,31,181,199,106,157,
     184,84,204,176,115,121,50,45,127,4,150,254,138,236,205,93,
     222,114,67,29,24,72,243,141,128,195,78,66,215,61,156,180 >>

Perm(n) == PERM[(n % 256) + 1]

\* x and y components of the library's gradient table GRAD3, rows 0 .. 15.
GRAD3x == << 1,-1, 1,-1, 1,-1, 1,-1, 0, 0, 0, 0, 1,-1, 0, 0 >>
GRAD3y == << 1, 1,-1,-1, 0, 0, 0, 0, 1,-1, 1,-1, 0, 0,-1, 1 >>

\* grad2(hash, x, y) = x * GRAD3[hash & 15][0] + y * GRAD3[hash & 15][1];
\* x and y are numerators over D, and so is the result.
grad2(hash, xn, yn) ==
  xn * GRAD3x[(hash % 16) + 1] + yn * GRAD3y[(hash % 16) + 1]

\* Numerator over D^5 of the fade curve t^3 (t (6 t - 15) + 10) at t = k / D.
FadeNum(k, D) == k * k * k * (k * (6 * k - 15 * D) + 10 * D * D)

\* lerp(t, a, b) = a + t (b - a) with t = tn / D^5; a and b are numerators
\* over some Q, the result is a numerator over Q * D^5.
lerp(tn, a, b, D) == a * Pow(D, 5) + tn * (b - a)

\* noise2(x, y, repeatx, repeaty, base) of the library, for x = xn / D and
\* y = yn / D; the result is a numerator over D^11.  Defined for D <= 2,
\* where each float32 operation of noise2 is exact.
noise2(xn, yn, D, repeatx, repeaty, base) ==
  LET i0  == TruncMod(xn, repeatx * D) \div D
      j0  == TruncMod(yn, repeaty * D) \div D
      ii0 == TruncMod(i0 + 1, repeatx)
      jj0 == TruncMod(j0 + 1, repeaty)
      i   == (i0 % 256) + base
      j   == (j0 % 256) + base
      ii  == (ii0 % 256) + base
      jj  == (jj0 % 256) + base
      kx  == xn % D
      ky  == yn % D
      fx  == FadeNum(kx, D)
      fy  == FadeNum(ky, D)
      A   == Perm(i)
      AA  == Perm(A + j)
      AB  == Perm(A + jj)
      B   == Perm(ii)
      BA  == Perm(B + j)
      BB  == Perm(B + jj)
  IN  CASE D \in {1, 2} ->
        lerp(fy,
             lerp(fx, grad2(Perm(AA), kx, ky),     grad2(Perm(BA), kx - D, ky),     D),
             lerp(fx, grad2(Perm(AB), kx, ky - D), grad2(Perm(BB), kx - D, ky - D), D),
             D)

\* Defaults of the persistence and lacunarity parameters: persistence is
\* 1 / PersistenceInv = 0.5, lacunarity is 2.0.
PersistenceInv == 2
Lacunarity == 2

\* Sum of the octave weights: octave k has amplitude persistence^k, i.e.
\* weight PersistenceInv^(octaves-1-k) over PersistenceInv^(octaves-1).
RECURSIVE WeightSum(_)
WeightSum(octaves) ==
  IF octaves = 0 THEN 0
  ELSE Pow(PersistenceInv, octaves - 1) + WeightSum(octaves - 1)

\* The octave loop of pnoise2: total += noise2(x*freq, y*freq, repeatx*freq,
\* repeaty*freq, base) * amp for octaves k .. octaves-1; the result is the
\* numerator of total over PersistenceInv^(octaves-1) * D^11.
RECURSIVE OctaveSum(_, _, _, _, _, _, _, _)
OctaveSum(k, octaves, xn, yn, D, repeatx, repeaty, base) ==
  IF k >= octaves THEN 0
  ELSE LET freq == Pow(Lacunarity, k)
       IN  Pow(PersistenceInv, octaves - 1 - k)
             * noise2(xn * freq, yn * freq, D, repeatx * freq, repeaty * freq, base)
           + OctaveSum(k + 1, octaves, xn, yn, D, repeatx, repeaty, base)

\* noise.pnoise2(x, y, octaves, persistence, lacunarity, repeatx, repeaty,
\* base): noise2 itself for one octave, else the float32 quotient
\* total / max; the result is a numerator over Fl32Unit.
pnoise2(xn, yn, D, octaves, repeatx, repeaty, base) ==
  IF octaves = 1
  THEN noise2(xn, yn, D, repeatx, repeaty, base) * (Fl32Unit \div Pow(D, 11))
  ELSE Fl32Quot(OctaveSum(0, octaves, xn, yn, D, repeatx, repeaty, base),
                WeightSum(octaves) * Pow(D, 11))

\* -------------------------------------------------------------- state ----
VARIABLES
  width, height, scale, octaves, seedArg,  \* the arguments of the call
  depth,        \* number of directory components of output_path
  dirs,         \* file system: state of each directory prefix of output_path
  file,         \* file system: the entry at output_path
  writable,     \* file system: may entries be created and written
  run,          \* number of the current invocation
  pc,           \* position of the current invocation
  seed,         \* the local seed after lines 11-12
  world,        \* the height field
  i, j,         \* the loop indices
  sampled,      \* how many times each cell of world was assigned
  normalized_world,
  img_array,
  img,          \* the PIL image: its size and its data
  stdout,       \* what this invocation printed
  err,          \* the exception that left this invocation, if any
  log,          \* steps this invocation has taken, in order
  results       \* outcomes of the earlier invocations

vars == << width, height, scale, octaves, seedArg, depth, dirs, file, writable,
           run, pc, seed, world, i, j, sampled, normalized_world, img_array,
           img, stdout, err, log, results >>

args == << width, height, scale, octaves, seedArg, depth >>
fsys == << dirs, file, writable >>

EmptyGrid == [r \in {} |-> 0]
NoImage == [size |-> << 0, 0 >>, data |-> EmptyGrid, made |-> FALSE]
NoFile == [exists |-> FALSE, data |-> EmptyGrid]

Cells(grid) == UNION {{<< r, c >> : c \in DOMAIN grid[r]} : r \in DOMAIN grid}
Values(grid) == UNION {{grid[r][c] : c \in DOMAIN grid[r]} : r \in DOMAIN grid}

\* -------------------------------------------------- the function body ----
\* Mutant of SeedIsUnset: `if not seed', which also replaces a seed of 0.
SeedIsFalsy(s) == s = None \/ s = 0

\* `if seed is None'
SeedIsUnset(s) == s = None

\* np.random.randint(0, 100), cut at MaxSeed
RandomSeeds == 0 .. (MaxSeed - 1)

\* np.zeros((height, width)): rows 0 .. height-1, columns 0 .. width-1
Zeros(h, w) == [r \in 0 .. (h - 1) |-> [c \in 0 .. (w - 1) |-> 0]]

\* idx / scale as a numerator over |scale|
CoordNum(idx, sc) == IF sc < 0 THEN -idx ELSE idx

\* The call of noise.pnoise2 for grid coordinate (r, c): x = r / scale,
\* y = c / scale, repeatx = width, repeaty = height, base = seed.
SampleAt(r, c, w, h, sc, oct, sd) ==
  pnoise2(CoordNum(r, sc), CoordNum(c, sc), Abs(sc), oct, w, h, sd)

\* Mutant of NextCell: the inner loop stops one column early.
NextCellShort(r, c, w) == IF c + 1 < w - 1 THEN << r, c + 1 >> ELSE << r + 1, 0 >>

\* The indices after cell (r, c) of `for i in range(height): for j in
\* range(width)'.
NextCell(r, c, w) == IF c + 1 < w THEN << r, c + 1 >> ELSE << r + 1, 0 >>

\* np.min(world), np.max(world)
MinOf(grid) == LET vs == Values(grid) IN CHOOSE v \in vs : \A u \in vs : v <= u
MaxOf(grid) == LET vs == Values(grid) IN CHOOSE v \in vs : \A u \in vs : v >= u

\* Mutant of Rescale: the minimum is not subtracted.
RescaleNoOffset(v, lo, hi) == [num |-> v, den |-> hi - lo]

\* (v - min_val) / (max_val - min_val)
Rescale(v, lo, hi) == [num |-> v - lo, den |-> hi - lo]

\* lines 30-33: all zeros when max_val == min_val, else the rescale
NormalizeField(grid) ==
  LET lo == MinOf(grid)
      hi == MaxOf(grid)
  IN  IF hi = lo
      THEN [r \in DOMAIN grid |-> [c \in DOMAIN grid[r] |-> [num |-> 0, den |-> 1]]]
      ELSE [r \in DOMAIN grid |-> [c \in DOMAIN grid[r] |-> Rescale(grid[r][c], lo, hi)]]

\* round(num / den * 255), halves to the even neighbour (Python, NumPy)
RoundHalfEven(n) ==
  LET md == MulDiv(255, n.num, n.den)
  IN  IF 2 * md.r > n.den \/ (2 * md.r = n.den /\ md.q % 2 = 1)
      THEN md.q + 1 ELSE md.q

\* Mutants of Quantize: the product rounded to nearest (halves to even, and
\* halves up), and the scale 256 in place of 255.
QuantizeRound(n) == RoundHalfEven(n) % 256
QuantizeRoundHalfUp(n) ==
  LET md == MulDiv(255, n.num, n.den)
  IN  (md.q + (IF 2 * md.r >= n.den THEN 1 ELSE 0)) % 256
QuantizeScale256(n) == MulDiv(256, n.num, n.den).q % 256

\* (n * 255).astype(np.uint8): the product truncated, kept to 8 bits
Quantize(n) == MulDiv(255, n.num, n.den).q % 256

QuantizeField(nw) == [r \in DOMAIN nw |-> [c \in DOMAIN nw[r] |-> Quantize(nw[r][c])]]

\* Image.fromarray(img_array, 'L'): size is (columns, rows)
FromArray(arr) ==
  [size |-> << IF DOMAIN arr = {} THEN 0 ELSE Cardinality(DOMAIN arr[0]),
                Cardinality(DOMAIN arr) >>,
   data |-> arr, made |-> TRUE]

\* os.makedirs(os.path.dirname(output_path), exist_ok=True): the exception
\* raised, or "none".  dirname is '' for a path without directories and
\* mkdir('') fails; an existing directory is accepted; a prefix that is a
\* file fails; a missing prefix is created when the file system allows it.
MakeDirsError(d, ds, wr) ==
  IF d = 0 THEN "FileNotFoundError"
  ELSE IF \E k \in 1 .. d : ds[k] = "file"
       THEN (IF ds[d] = "file" THEN "FileExistsError" ELSE "NotADirectoryError")
  ELSE IF (\E k \in 1 .. d : ds[k] = "absent") /\ ~wr THEN "PermissionError"
  ELSE "none"

\* img.save(output_path): the exception raised, or "none"
SaveError(wr) == IF wr THEN "none" ELSE "PermissionError"

Raise(e) == /\ err' = e
            /\ pc' = "raised"

\* lines 11-12
ResolveSeed ==
  /\ pc = "start"
  /\ IF SeedIsUnset(seedArg)
     THEN seed' \in RandomSeeds
     ELSE seed' = seedArg
  /\ pc' = "alloc"
  /\ log' = Append(log, "seed")
  /\ UNCHANGED << args, fsys, run, world, i, j, sampled, normalized_world,
                  img_array, img, stdout, err, results >>

\* line 14
Alloc ==
  /\ pc = "alloc"
  /\ IF height < 0 \/ width < 0
     THEN /\ Raise("ValueError")
          /\ UNCHANGED << world, sampled, i, j >>
     ELSE /\ world' = Zeros(height, width)
          /\ sampled' = Zeros(height, width)
          /\ i' = 0
          /\ j' = 0
          /\ pc' = "sample"
          /\ err' = err
  /\ log' = Append(log, "alloc")
  /\ UNCHANGED << args, fsys, run, seed, normalized_world, img_array, img,
                  stdout, results >>

\* lines 15-25, one cell
SampleCell ==
  /\ pc = "sample"
  /\ i < height
  /\ j < width
  /\ IF scale = 0
     THEN /\ Raise("ZeroDivisionError")
          /\ UNCHANGED << world, sampled, i, j >>
     ELSE /\ world' = [world EXCEPT ![i][j] =
                         SampleAt(i, j, width, height, scale, octaves, seed)]
          /\ sampled' = [sampled EXCEPT ![i][j] = @ + 1]
          /\ i' = NextCell(i, j, width)[1]
          /\ j' = NextCell(i, j, width)[2]
          /\ UNCHANGED << pc, err >>
  /\ log' = Append(log, "sample")
  /\ UNCHANGED << args, fsys, run, seed, normalized_world, img_array, img,
                  stdout, results >>

\* the loops of lines 15-16 are exhausted
LoopExit ==
  /\ pc = "sample"
  /\ i >= height \/ width = 0
  /\ pc' = "normalize"
  /\ UNCHANGED << args, fsys, run, seed, world, i, j, sampled,
                  normalized_world, img_array, img, stdout, err, log, results >>

\* Mutant of Normalize: an empty field is passed on instead of raising.
NormalizeSkipEmpty ==
  /\ pc = "normalize"
  /\ normalized_world' = IF Cells(world) = {} THEN world ELSE NormalizeField(world)
  /\ pc' = "quantize"
  /\ log' = Append(log, "normalize")
  /\ UNCHANGED << args, fsys, run, seed, world, i, j, sampled, img_array,
                  img, stdout, err, results >>

\* lines 28-33; np.min of an empty array raises ValueError
Normalize ==
  /\ pc = "normalize"
  /\ IF Cells(world) = {}
     THEN /\ Raise("ValueError")
          /\ UNCHANGED normalized_world
     ELSE /\ normalized_world' = NormalizeField(world)
          /\ pc' = "quantize"
          /\ err' = err
  /\ log' = Append(log, "normalize")
  /\ UNCHANGED << args, fsys, run, seed, world, i, j, sampled, img_array,
                  img, stdout, results >>

\* line 36
QuantizeStep ==
  /\ pc = "quantize"
  /\ img_array' = QuantizeField(normalized_world)
  /\ pc' = "image"
  /\ log' = Append(log, "quantize")
  /\ UNCHANGED << args, fsys, run, seed, world, i, j, sampled,
                  normalized_world, img, stdout, err, results >>

\* line 39
MakeImage ==
  /\ pc = "image"
  /\ img' = FromArray(img_array)
  /\ pc' = "makedirs"
  /\ log' = Append(log, "image")
  /\ UNCHANGED << args, fsys, run, seed, world, i, j, sampled,
                  normalized_world, img_array, stdout, err, results >>

\* line 43
MakeDirs ==
  /\ pc = "makedirs"
  /\ IF MakeDirsError(depth, dirs, writable) # "none"
     THEN /\ Raise(MakeDirsError(depth, dirs, writable))
          /\ dirs' = dirs
     ELSE /\ dirs' = [k \in 1 .. depth |-> "dir"]
          /\ pc' = "save"
          /\ err' = err
  /\ log' = Append(log, "makedirs")
  /\ UNCHANGED << args, file, writable, run, seed, world, i, j, sampled,
                  normalized_world, img_array, img, stdout, results >>

\* Mutant of Save: a failed write is swallowed and the function goes on.
SaveSwallow ==
  /\ pc = "save"
  /\ file' = IF SaveError(writable) # "none" THEN file
             ELSE [exists |-> TRUE, data |-> img.data]
  /\ pc' = "print"
  /\ log' = Append(log, "save")
  /\ UNCHANGED << args, dirs, writable, run, seed, world, i, j, sampled,
                  normalized_world, img_array, img, stdout, err, results >>

\* line 45
Save ==
  /\ pc = "save"
  /\ IF SaveError(writable) # "none"
     THEN /\ Raise(SaveError(writable))
          /\ file' = file
     ELSE /\ file' = [exists |-> TRUE, data |-> img.data]
          /\ pc' = "print"
          /\ err' = err
  /\ log' = Append(log, "save")
  /\ UNCHANGED << args, dirs, writable, run, seed, world, i, j, sampled,
                  normalized_world, img_array, img, stdout, results >>

\* line 46
PrintSaved ==
  /\ pc = "print"
  /\ stdout' = Append(stdout, << "saved to", depth >>)
  /\ pc' = "done"
  /\ log' = Append(log, "print")
  /\ UNCHANGED << args, fsys, run, seed, world, i, j, sampled,
                  normalized_world, img_array, img, err, results >>

\* The caller invokes the function a second time with the same arguments;
\* the locals of the finished invocation are gone, the file system stays.
Rerun ==
  /\ pc \in {"done", "raised"}
  /\ run = 1
  /\ results' = Append(results,
                  [err |-> err, seed |-> seed, world |-> world,
                   img_array |-> img_array, size |-> img.size,
                   stdout |-> stdout, log |-> log])
  /\ run' = run + 1
  /\ pc' = "start"
  /\ seed' = None
  /\ world' = EmptyGrid
  /\ sampled' = EmptyGrid
  /\ i' = 0
  /\ j' = 0
  /\ normalized_world' = EmptyGrid
  /\ img_array' = EmptyGrid
  /\ img' = NoImage
  /\ stdout' = << >>
  /\ err' = "none"
  /\ log' = << >>
  /\ UNCHANGED << args, fsys >>

\* A file system state: a directory prefix exists only below directories.
DirStates(d) ==
  {ds \in [1 .. d -> {"absent", "dir", "file"}] :
     \A k \in 2 .. d : ds[k - 1] # "dir" => ds[k] = "absent"}

Init ==
  /\ width \in Dims
  /\ height \in Dims
  /\ scale \in Scales
  /\ octaves \in OctaveChoices
  /\ seedArg \in SeedArgs
  /\ depth \in 0 .. DefaultDepth
  /\ dirs \in DirStates(depth)
  /\ file = NoFile
  /\ writable \in BOOLEAN
  /\ run = 1
  /\ pc = "start"
  /\ seed = None
  /\ world = EmptyGrid
  /\ sampled = EmptyGrid
  /\ i = 0
  /\ j = 0
  /\ normalized_world = EmptyGrid
  /\ img_array = EmptyGrid
  /\ img = NoImage
  /\ stdout = << >>
  /\ err = "none"
  /\ log = << >>
  /\ results = << >>

Next ==
  \/ ResolveSeed
  \/ Alloc
  \/ SampleCell
  \/ LoopExit
  \/ Normalize
  \/ QuantizeStep
  \/ MakeImage
  \/ MakeDirs
  \/ Save
  \/ PrintSaved
  \/ Rerun

Spec == Init /\ [][Next]_vars

\* ------------------------------------------------------ claim helpers ----
Last(sq) == sq[Len(sq)]
Count(sq, e) == Cardinality({k \in DOMAIN sq : sq[k] = e})
Normalized == pc \in {"quantize", "image", "makedirs", "save", "print", "done"}
             \/ (pc = "raised" /\ Last(log) \in {"makedirs", "save"})
Quantized == Normalized /\ pc # "quantize"
Degenerate == MinOf(world) = MaxOf(world)
\* k * x for 0 <= k <= 256 and 0 <= x < 2^29, as << high, low >> digits to
\* the base 2^14, and the order of such pairs.
BigMul(k, x) ==
  << k * (x \div 16384) + ((k * (x % 16384)) \div 16384),
     (k * (x % 16384)) % 16384 >>
BigLe(a, b) == a[1] < b[1] \/ (a[1] = b[1] /\ a[2] <= b[2])
BigLt(a, b) == a[1] < b[1] \/ (a[1] = b[1] /\ a[2] < b[2])
\* a / b = c / d for a, c >= 0 and b, d > 0, by lowest terms
SameRatio(a, b, c, d) ==
  /\ a \div GCD(a, b) = c \div GCD(c, d)
  /\ b \div GCD(a, b) = d \div GCD(c, d)

\* C1: the normalised field is all zeros when max = min; otherwise every
\* value is (v - min) / (max - min), lies in [0, 1], is 0 exactly at the
\* cells holding the minimum and 1 exactly at the cells holding the maximum.
C1_Normalization ==
  Normalized =>
    /\ DOMAIN normalized_world = DOMAIN world
    /\ LET lo == MinOf(world)
           hi == MaxOf(world)
       IN  \A r \in DOMAIN world : \A c \in DOMAIN world[r] :
             LET v == world[r][c]
                 n == normalized_world[r][c]
             IN  /\ n.den > 0
                 /\ hi = lo => n.num = 0
                 /\ hi # lo =>
                      /\ SameRatio(n.num, n.den, v - lo, hi - lo)
                      /\ 0 <= n.num /\ n.num <= n.den
                      /\ (v = lo) = (n.num = 0)
                      /\ (v = hi) = (n.num = n.den)

\* C1 witness: a normalised, non-flat field with a value strictly inside
\* (0, 1), a cell at 0 and a cell at 1.
C1_Witness ==
  /\ pc = "quantize"
  /\ ~Degenerate
  /\ \E a, b, c \in Cells(world) :
       LET na == normalized_world[a[1]][a[2]]
           nb == normalized_world[b[1]][b[2]]
           nc == normalized_world[c[1]][c[2]]
       IN  na.num = 0 /\ nb.num = nb.den /\ 0 < nc.num /\ nc.num < nc.den

\* C2: every pixel is an integer in 0 .. 255; a non-flat field has a pixel
\* 0 and a pixel 255; a flat field (1x1 included) gives all pixels 0, and
\* normalisation raises only for an empty field.
C2_PixelRange ==
  /\ Quantized =>
       /\ \A rc \in Cells(img_array) : img_array[rc[1]][rc[2]] \in 0 .. 255
       /\ ~Degenerate =>
            /\ \E rc \in Cells(img_array) : img_array[rc[1]][rc[2]] = 0
            /\ \E rc \in Cells(img_array) : img_array[rc[1]][rc[2]] = 255
       /\ Degenerate => \A rc \in Cells(img_array) : img_array[rc[1]][rc[2]] = 0
       /\ Cells(img_array) = Cells(world) /\ Cells(world) # {}
  /\ (pc = "raised" /\ Last(log) = "normalize") => (width = 0 \/ height = 0)
  /\ (width = 1 /\ height = 1 /\ pc = "normalize") => Degenerate

\* C2 witness: a finished run on a non-flat field whose image holds 0, 255
\* and a value in between.
C2_Witness ==
  /\ pc = "done"
  /\ ~Degenerate
  /\ \E a, b, c \in Cells(img_array) :
       /\ img_array[a[1]][a[2]] = 0
       /\ img_array[b[1]][b[2]] = 255
       /\ img_array[c[1]][c[2]] \in 1 .. 254

\* C3: each pixel is floor(n * 255) of its normalised value n: n = 1 gives
\* 255, n = 0 gives 0, every n < 1 gives at most 254.
C3_Truncates ==
  Quantized =>
    \A rc \in Cells(img_array) :
      LET n == normalized_world[rc[1]][rc[2]]
          p == img_array[rc[1]][rc[2]]
      IN  /\ BigLe(BigMul(p, n.den), BigMul(255, n.num))
          /\ BigLt(BigMul(255, n.num), BigMul(p + 1, n.den))
          /\ n.num = n.den => p = 255
          /\ n.num = 0 => p = 0
          /\ n.num < n.den => p <= 254

\* C3 witness: a quantised cell whose n * 255 has a fractional part of at
\* least one half, so that rounding and truncation differ.
C3_Witness ==
  /\ Quantized
  /\ \E rc \in Cells(img_array) :
       LET n == normalized_world[rc[1]][rc[2]]
           md == MulDiv(255, n.num, n.den)
       IN  /\ 2 * md.r >= n.den
           /\ img_array[rc[1]][rc[2]] = md.q

\* C4 as stated: every pixel equals round(n * 255).
C4_Rounds ==
  Quantized =>
    \A rc \in Cells(img_array) :
      img_array[rc[1]][rc[2]] = RoundHalfEven(normalized_world[rc[1]][rc[2]])

\* C4 amended: every pixel is the integer part of n * 255, its fraction
\* dropped and never rounded up, so the pixel is round(n * 255) or one
\* below it.
C4_NeverRoundsUp ==
  Quantized =>
    \A rc \in Cells(img_array) :
      LET n == normalized_world[rc[1]][rc[2]]
          p == img_array[rc[1]][rc[2]]
          rd == RoundHalfEven(n)
      IN  /\ p <= 255
          /\ MulDiv(255, n.num, n.den).q = p
          /\ p = rd \/ p = rd - 1

\* C4 witness: a pixel one below the rounded value.
C4_Witness ==
  /\ Quantized
  /\ \E rc \in Cells(img_array) :
       img_array[rc[1]][rc[2]] = RoundHalfEven(normalized_world[rc[1]][rc[2]]) - 1

\* C5: with an explicitly given seed (0 included) the seed is used as
\* given and every invocation with the same arguments computes the same
\* height field and the same image as the invocations before it.
C5_Determinism ==
  seedArg # None =>
    /\ pc \notin {"start"} => seed = seedArg
    /\ pc \in {"done", "raised"} =>
         \A k \in DOMAIN results :
           /\ results[k].seed = seedArg
           /\ results[k].world = world
           /\ results[k].img_array = img_array

\* C5 witness: the second invocation with seed = 0 has finished with a
\* non-flat image equal to the first one's.
C5_Witness ==
  /\ seedArg = 0
  /\ run = 2
  /\ pc = "done"
  /\ ~Degenerate
  /\ results[1].img_array = img_array

\* C6 as stated: a call with width <= 0, height <= 0 or scale <= 0 fails
\* before or during the sampling loop (the empty-grid failure of the
\* minimum right after an empty loop is counted with it), writes no file
\* and prints nothing.
C6_RejectsNonPositive ==
  (width <= 0 \/ height <= 0 \/ scale <= 0) =>
    /\ \/ pc \in {"start", "alloc", "sample", "raised"}
       \/ (pc = "normalize" /\ Cells(world) = {})
    /\ pc = "raised" => Last(log) \in {"alloc", "sample", "normalize"}
    /\ ~file.exists
    /\ stdout = << >>

\* C6 amended: a call with width <= 0, height <= 0 or scale = 0 fails and
\* writes no file and prints nothing: a negative dimension raises at the
\* allocation, a zero dimension at the minimum taken after the (empty)
\* sampling loop, a zero scale (with positive dimensions) at the first
\* sample.  A negative scale is not rejected.
C6_RejectsZeroScaleAndEmpty ==
  (width <= 0 \/ height <= 0 \/ scale = 0) =>
    /\ pc \in {"start", "alloc", "sample", "normalize", "raised"}
    /\ ~file.exists
    /\ stdout = << >>
    /\ pc = "raised" =>
         IF width < 0 \/ height < 0
         THEN Last(log) = "alloc" /\ err = "ValueError"
         ELSE IF width = 0 \/ height = 0
         THEN Last(log) = "normalize" /\ err = "ValueError"
         ELSE /\ Last(log) = "sample" /\ err = "ZeroDivisionError"
              /\ Count(log, "sample") = 1
              /\ \A rc \in Cells(sampled) : sampled[rc[1]][rc[2]] = 0
    /\ pc \notin {"done", "raised"} => ENABLED Next

\* C6 witness: a zero scale has raised at the first sample.
C6_Witness ==
  /\ scale = 0
  /\ pc = "raised"
  /\ err = "ZeroDivisionError"

\* C7 as stated: the field repeats after height rows and after width
\* columns: the value sampled at (height, x) equals the one at (0, x) and
\* the value sampled at (y, width) equals the one at (y, 0), for every
\* positive scale.
C7_Tileable ==
  (pc = "normalize" /\ Cells(world) # {} /\ scale > 0) =>
    /\ \A x \in 0 .. (width - 1) :
         SampleAt(height, x, width, height, scale, octaves, seed) = world[0][x]
    /\ \A y \in 0 .. (height - 1) :
         SampleAt(y, width, width, height, scale, octaves, seed) = world[y][0]

\* C8 as stated: the writer fails only when the path is unwritable or a
\* directory component is an existing non-directory; a path without a
\* directory component and a path whose directories exist are written.
C8_WriterSucceeds ==
  LET conflict == \E k \in 1 .. depth : dirs[k] = "file"
  IN  /\ (pc = "raised" /\ Last(log) \in {"makedirs", "save"} /\ scale > 0) =>
           (~writable \/ conflict)
      /\ (pc \in {"print", "done"}) =>
           /\ file.exists /\ file.data = img_array
           /\ \A k \in 1 .. depth : dirs[k] = "dir"

\* C9: the height field has height rows of width columns, every cell is
\* assigned exactly once before normalisation starts, and the image has
\* size (width, height).
C9_Shape ==
  /\ pc = "sample" =>
       /\ normalized_world = EmptyGrid
       /\ DOMAIN world = 0 .. (height - 1)
       /\ \A r \in DOMAIN world : DOMAIN world[r] = 0 .. (width - 1)
       /\ \A rc \in Cells(sampled) :
            sampled[rc[1]][rc[2]] =
              (IF rc[1] < i \/ (rc[1] = i /\ rc[2] < j) THEN 1 ELSE 0)
  /\ (pc = "normalize" \/ Normalized) =>
       /\ DOMAIN world = 0 .. (height - 1)
       /\ \A r \in DOMAIN world : DOMAIN world[r] = 0 .. (width - 1)
       /\ Cells(sampled) = Cells(world)
       /\ \A rc \in Cells(sampled) : sampled[rc[1]][rc[2]] = 1
       /\ Count(log, "sample") = height * width
  /\ img.made =>
       /\ img.size = << width, height >>
       /\ DOMAIN img.data = 0 .. (height - 1)
       /\ \A r \in DOMAIN img.data : DOMAIN img.data[r] = 0 .. (width - 1)
  /\ file.exists =>
       /\ DOMAIN file.data = 0 .. (height - 1)
       /\ \A r \in DOMAIN file.data : DOMAIN file.data[r] = 0 .. (width - 1)

\* C9 witness: a non-square image has been built.
C9_Witness ==
  /\ img.made
  /\ width > 1
  /\ height > 1
  /\ width # height
  /\ Cardinality(Cells(world)) = width * height

\* C10: the steps occur in the order sample, normalise, quantise, ensure
\* directories, write, print, each of the last five at most once; the
\* confirmation is printed only after the write succeeded; when directory
\* creation or the write fails the error leaves the function, nothing is
\* retried and nothing is printed.
StepRank(e) ==
  CASE e = "seed" -> 0
    [] e = "alloc" -> 1
    [] e = "sample" -> 2
    [] e = "normalize" -> 3
    [] e = "quantize" -> 4
    [] e = "image" -> 5
    [] e = "makedirs" -> 6
    [] e = "save" -> 7
    [] e = "print" -> 8

C10_PipelineOrder ==
  /\ \A a \in DOMAIN log : a > 1 => StepRank(log[a - 1]) <= StepRank(log[a])
  /\ \A e \in {"normalize", "quantize", "image", "makedirs", "save", "print"} :
       Count(log, e) <= 1
  /\ \A a \in DOMAIN log :
       /\ StepRank(log[a]) > 3 => (a > 1 /\ StepRank(log[a - 1]) = StepRank(log[a]) - 1)
       /\ StepRank(log[a]) = 3 => (a > 1 /\ log[a - 1] \in {"alloc", "sample"})
  /\ stdout # << >> =>
       /\ stdout = << << "saved to", depth >> >>
       /\ Count(log, "save") = 1
       /\ file.exists /\ file.data = img_array
       /\ err = "none"
  /\ (pc = "raised" /\ Last(log) \in {"makedirs", "save"}) =>
       /\ err \in {"FileNotFoundError", "FileExistsError", "NotADirectoryError",
                   "PermissionError"}
       /\ stdout = << >>
       /\ Count(log, Last(log)) = 1
       /\ ~ENABLED (Next /\ run' = run)
  /\ (err # "none") = (pc = "raised")

\* C10 witness: the write has failed in an invocation and the error has
\* left the function.
C10_Witness ==
  /\ pc = "raised"
  /\ Last(log) = "save"
  /\ err = "PermissionError"

====
